---- MODULE Spec2Model ----
(***************************************************************************)
(* Model of the dating-analysis pipeline: the weighted match scorer and    *)
(* ranking of RedditDatingAnalysis (main.py), the profile view of          *)
(* BehaviorAnalyzer (behavior_analyzer.py) and the fitted models of        *)
(* RecommendationSystem (recommendation_system.py).                        *)
(*                                                                         *)
(* Numbers.  A Python float is modelled exactly as a tagged integer in a   *)
(* fixed unit: hours are counted in quarter hours (binary-exact, so the    *)
(* one-decimal formatting of the code is reproduced digit by digit),       *)
(* sentiment in tenths, and a score in 1/ScoreScale points.  NaN is a      *)
(* value of its own: every comparison with it is false, as in Python.      *)
(***************************************************************************)
EXTENDS Integers, Sequences, FiniteSets, TLC

VARIABLES
    \* calculate_match_score applied to one row (the pure-function harness)
    sc_prefs, sc_row, sc_out,
    \* RedditDatingAnalysis.find_matches and BehaviorAnalyzer.get_user_profile
    behavior_data, preferences, n_recommendations, pc, idx, matches,
    fm_out, stdout, profile_out,
    \* RecommendationSystem
    tfidf, scaler, knn_model, features, rec_out,
    \* DataProcessor and BehaviorAnalyzer.analyze_user_behavior applied to one
    \* input
    dp_in, dp_out

score_vars == <<sc_prefs, sc_row, sc_out>>
match_vars == <<behavior_data, preferences, n_recommendations, pc, idx,
                matches, fm_out, stdout, profile_out>>
rec_vars   == <<tfidf, scaler, knn_model, features, rec_out>>
data_vars  == <<dp_in, dp_out>>
vars       == <<score_vars, match_vars, rec_vars, data_vars>>

(***************************************************************************)
(* Units and Python numbers                                                *)
(***************************************************************************)
QuartersPerHour == 60 \div 15
\* one score point, fine enough for 17.5, d/24 on quarter hours, *0.8, *0.9
ScoreScale      == 2 * 24 * QuartersPerHour * 25

Num(x) == [t |-> "num", v |-> x]
NaN    == [t |-> "nan", v |-> 0]
IsNum(a) == a.t = "num"

\* Python comparisons of floats: False as soon as one side is NaN
Gt(a, b) == IsNum(a) /\ IsNum(b) /\ a.v > b.v
Lt(a, b) == IsNum(a) /\ IsNum(b) /\ a.v < b.v
Le(a, b) == IsNum(a) /\ IsNum(b) /\ a.v <= b.v

Hours(h)  == Num(h * QuartersPerHour)
Tenths(x) == Num(x)

\* the sequences over S of length at most n
RECURSIVE SeqsUpTo(_, _)
SeqsUpTo(S, n) ==
    IF n = 0 THEN {<<>>}
    ELSE LET shorter == SeqsUpTo(S, n - 1)
         IN  shorter \cup {Append(q, x) : q \in {r \in shorter : Len(r) = n - 1}, x \in S}

AbsInt(x) == IF x < 0 THEN 0 - x ELSE x
MinInt(a, b) == IF b < a THEN b ELSE a
MaxInt(a, b) == IF b > a THEN b ELSE a

(***************************************************************************)
(* BehaviorAnalyzer._get_communication_style                               *)
(***************************************************************************)
_get_communication_style(profile) ==
    IF Gt(profile.sentiment_mean, Tenths(2)) THEN "Positive"
    ELSE IF Lt(profile.sentiment_mean, Tenths(0 - 2)) THEN "Critical"
    ELSE "Neutral"

(***************************************************************************)
(* RedditDatingAnalysis.calculate_match_score                              *)
(*                                                                         *)
(* A Preferences value is a function from some of the three keys to        *)
(* values; a missing key is a key outside its DOMAIN.  response_time is a  *)
(* number, or a value of another type (t = "str") on which arithmetic      *)
(* raises TypeError.                                                       *)
(***************************************************************************)
W_communication_style == 35
W_response_time       == 25
W_engagement_level    == 25
W_activity            == 15

EngagementOrdinal == [low |-> 0, medium |-> 1, high |-> 2]
ExpectedFreq      == [low |-> 1, medium |-> 3, high |-> 5]
EngagementLevels  == {"low", "medium", "high"}

HasKey(d, k) == k \in DOMAIN d

\* lines 204-211; raises KeyError when the key is missing
StyleRaises(prefs) == ~HasKey(prefs, "communication_style")
StyleComponent(prefs, user_data) ==
    LET user_style == _get_communication_style(user_data)
        pref       == prefs["communication_style"]
    IN  IF user_style = pref
        THEN W_communication_style * ScoreScale
        ELSE IF (user_style = "neutral" /\ pref # "critical")
                \/ (pref = "neutral" /\ user_style # "critical")
        THEN (W_communication_style * ScoreScale) \div 2
        ELSE 0

\* lines 214-226; the fraction is returned over TimeFracDen
TimeFracDen == 5 * 24 * QuartersPerHour
TimeRaises(prefs) ==
    \/ ~HasKey(prefs, "response_time")
    \/ prefs["response_time"].t = "str"
\* a scorer whose 0.8 and 0.6 tiers are exchanged
TimeScoreTiersExchanged(prefs, user_data) ==
    LET a == user_data.avg_response_time
        p == prefs["response_time"]
        isnan == ~(IsNum(a) /\ IsNum(p))
        d == IF isnan THEN 0 ELSE AbsInt(a.v - p.v)
        full == TimeFracDen
    IN  IF ~isnan /\ d <= 1 * QuartersPerHour THEN full
        ELSE IF ~isnan /\ d <= 3 * QuartersPerHour THEN (full * 6) \div 10
        ELSE IF ~isnan /\ d <= 6 * QuartersPerHour THEN (full * 8) \div 10
        ELSE IF ~isnan /\ d <= 12 * QuartersPerHour THEN (full * 4) \div 10
        ELSE IF isnan THEN 0
        ELSE MaxInt(0, 5 * (24 * QuartersPerHour - d))
TimeScore(prefs, user_data) ==
    LET a == user_data.avg_response_time
        p == prefs["response_time"]
        isnan == ~(IsNum(a) /\ IsNum(p))
        d == IF isnan THEN 0 ELSE AbsInt(a.v - p.v)
        full == TimeFracDen
    IN  IF ~isnan /\ d <= 1 * QuartersPerHour THEN full
        ELSE IF ~isnan /\ d <= 3 * QuartersPerHour THEN (full * 8) \div 10
        ELSE IF ~isnan /\ d <= 6 * QuartersPerHour THEN (full * 6) \div 10
        ELSE IF ~isnan /\ d <= 12 * QuartersPerHour THEN (full * 4) \div 10
        ELSE IF isnan THEN 0      \* max(0, nan) keeps its first argument
        ELSE MaxInt(0, 5 * (24 * QuartersPerHour - d))
TimeComponent(prefs, user_data) ==
    (W_response_time * ScoreScale * TimeScore(prefs, user_data)) \div TimeFracDen

\* lines 229-236
EngagementRaises(prefs, user_data) ==
    \/ ~HasKey(prefs, "engagement_level")
    \/ /\ user_data.engagement_level # prefs["engagement_level"]
       /\ \/ user_data.engagement_level \notin EngagementLevels
          \/ prefs["engagement_level"] \notin EngagementLevels
EngagementComponent(prefs, user_data) ==
    LET u == user_data.engagement_level
        p == prefs["engagement_level"]
    IN  IF u = p THEN W_engagement_level * ScoreScale
        ELSE IF AbsInt(EngagementOrdinal[u] - EngagementOrdinal[p]) = 1
        THEN (W_engagement_level * ScoreScale) \div 2
        ELSE 0

\* lines 239-243
ActivityRaises(prefs) == prefs["engagement_level"] \notin EngagementLevels
ActivityComponent(prefs, user_data) ==
    LET expected_freq == ExpectedFreq[prefs["engagement_level"]]
        activity_diff == AbsInt(user_data.message_frequency - expected_freq)
    IN  (W_activity * ScoreScale * MaxInt(0, 5 - activity_diff)) \div 5

\* lines 246-249
SlowPenalty(prefs, user_data) ==
    Gt(user_data.avg_response_time, Hours(24)) /\ Lt(prefs["response_time"], Hours(6))
NegativePenalty(prefs, user_data) ==
    Lt(user_data.sentiment_mean, Tenths(0 - 5)) /\ prefs["communication_style"] = "positive"

\* line 251
Clamp(score) == MinInt(100 * ScoreScale, MaxInt(0, score))

\* line 255
ErrorScoreBroken == 0 - 1
ErrorScore == 0

ScoringRaises(prefs, user_data) ==
    \/ StyleRaises(prefs)
    \/ TimeRaises(prefs)
    \/ EngagementRaises(prefs, user_data)
    \/ ActivityRaises(prefs)

\* lines 204-251, the body of the try block when nothing raises
NormalScore(prefs, user_data) ==
    LET s0 == StyleComponent(prefs, user_data) + TimeComponent(prefs, user_data)
              + EngagementComponent(prefs, user_data) + ActivityComponent(prefs, user_data)
        s1 == IF SlowPenalty(prefs, user_data) THEN (s0 * 8) \div 10 ELSE s0
        s2 == IF NegativePenalty(prefs, user_data) THEN (s1 * 9) \div 10 ELSE s1
    IN  Clamp(s2)

\* a scorer whose handler lets the exception through
calculate_match_score_uncaught(prefs, user_data) ==
    IF ScoringRaises(prefs, user_data)
    THEN [kind |-> "raise", score |-> 0, warned |-> FALSE]
    ELSE [kind |-> "return", score |-> NormalScore(prefs, user_data), warned |-> FALSE]

\* lines 193-255: the except clause catches every exception of the body,
\* prints a warning and returns ErrorScore
calculate_match_score(prefs, user_data) ==
    IF ScoringRaises(prefs, user_data)
    THEN [kind |-> "return", score |-> ErrorScore * ScoreScale, warned |-> TRUE]
    ELSE [kind |-> "return", score |-> NormalScore(prefs, user_data), warned |-> FALSE]

(***************************************************************************)
(* Input domains                                                           *)
(***************************************************************************)
MaxFreq == 6

PrefKeys   == {"communication_style", "response_time", "engagement_level"}
StyleVals  == {"positive", "neutral", "critical", "flirty"}
NotANumber == [t |-> "str", v |-> 0]
ResponseVals == {Hours(1), Hours(6), Hours(24), NotANumber}
EngVals    == EngagementLevels \cup {"extreme"}

FullPrefs == [communication_style : StyleVals,
              response_time : ResponseVals,
              engagement_level : EngVals]
WithoutKey(p, k) == [x \in (DOMAIN p) \ {k} |-> p[x]]
\* every full value, and every value with one key missing
PrefsDomain == FullPrefs \cup {WithoutKey(p, k) : p \in FullPrefs, k \in PrefKeys}

WellFormed(prefs) ==
    /\ DOMAIN prefs = PrefKeys
    /\ prefs["communication_style"] \in {"positive", "neutral", "critical"}
    /\ prefs["response_time"].t = "num"
    /\ prefs["engagement_level"] \in EngagementLevels

TimeVals == {Num(q) : q \in {0, 4, 5, 16, 28, 52, 100, 120, 196}} \cup {NaN}
SentVals == {Tenths(x) : x \in {0 - 6, 0 - 5, 0 - 3, 0 - 2, 0, 2, 3}} \cup {NaN}

ScoreRows == [avg_response_time : TimeVals,
              sentiment_mean : SentVals,
              engagement_level : EngagementLevels,
              message_frequency : 0..MaxFreq]

NoCall == [kind |-> "none", score |-> 0, warned |-> FALSE]

(***************************************************************************)
(* RecommendationSystem: the fitted models                                 *)
(*                                                                         *)
(* A corpus is a sequence of processed posts.  clean_text holds at most    *)
(* one term, so the l2-normalised tf-idf row of a post is the unit vector  *)
(* of its term, or the zero vector when it has none in the vocabulary.     *)
(* A standardised value (x - mean)/scale is irrational in general; with    *)
(* n, s and ss the count, sum and sum of squares of its column it equals   *)
(* (n*x - s) / sqrt(n*ss - s*s), kept as the integer numerator with the    *)
(* column's denominator n*ss - s*s, so dot products are exact.             *)
(***************************************************************************)
BehavioralColumns ==
    <<"avg_response_time", "total_comments", "comment_sentiment_mean",
      "avg_words_per_comment">>
ColumnSet == {BehavioralColumns[j] : j \in 1..Len(BehavioralColumns)}

\* fillna(0)
FillNa0(a) == IF IsNum(a) THEN a.v ELSE 0

RECURSIVE SumSeq(_)
SumSeq(q) == IF q = <<>> THEN 0 ELSE Head(q) + SumSeq(Tail(q))

Column(df, c) == [i \in 1..Len(df) |-> FillNa0(df[i][c])]
Squares(q) == [i \in 1..Len(q) |-> q[i] * q[i]]

Unfitted == [fitted |-> FALSE]

\* StandardScaler.fit: mean_ = sum/n and var_ = sumsq/n - mean_^2 per column
ScalerFit(df) ==
    [fitted |-> TRUE,
     n |-> Len(df),
     sum |-> [c \in ColumnSet |-> SumSeq(Column(df, c))],
     sumsq |-> [c \in ColumnSet |-> SumSeq(Squares(Column(df, c)))]]

\* n^2 * var_ of a column; scale_ is 1.0 for a column of zero variance, whose
\* centred values in the fitted corpus are all 0
ScaleDen(m, c) ==
    LET d == m.n * m.sumsq[c] - m.sum[c] * m.sum[c]
    IN  IF d = 0 THEN 1 ELSE d

\* StandardScaler.transform: the numerators of (x - mean_) / scale_
ScalerTransform(m, df) ==
    [i \in 1..Len(df) |-> [c \in ColumnSet |-> m.n * FillNa0(df[i][c]) - m.sum[c]]]

\* a standardizer that is fitted by the first call only and reused afterwards
ScalerFitOnce(df) ==
    LET m == IF scaler.fitted THEN scaler ELSE ScalerFit(df)
    IN  [model |-> m, block |-> ScalerTransform(m, df)]

\* line 30: scaler.fit_transform
ScalerFitTransform(df) ==
    LET m == ScalerFit(df)
    IN  [model |-> m, block |-> ScalerTransform(m, df)]

\* stop_words='english'
StopWords == {"the"}
Terms(doc) == IF doc = "" \/ doc \in StopWords THEN {} ELSE {doc}
Vocabulary(df) == UNION {Terms(df[i].clean_text) : i \in 1..Len(df)}

\* TfidfVectorizer.fit: vocabulary_ and, through the document counts, idf_
TfidfFit(df) ==
    [fitted |-> TRUE,
     n |-> Len(df),
     doc_count |-> [t \in Vocabulary(df) |->
                       Cardinality({i \in 1..Len(df) : t \in Terms(df[i].clean_text)})]]

\* TfidfVectorizer.transform: the term whose unit vector the row is, "" for 0
TfidfTransform(m, df) ==
    [i \in 1..Len(df) |->
        IF Terms(df[i].clean_text) \subseteq DOMAIN m.doc_count
           /\ Terms(df[i].clean_text) # {}
        THEN df[i].clean_text ELSE ""]

\* line 26: tfidf.fit_transform
TfidfFitTransform(df) ==
    LET m == TfidfFit(df)
    IN  [model |-> m, block |-> TfidfTransform(m, df)]

NoFeatures == [rows |-> <<>>, den |-> [c \in ColumnSet |-> 1], space |-> Unfitted]

\* lines 15-34: both models are fitted on df, the blocks are stacked per row;
\* space names the fitted models whose coordinates the matrix is in
prepare_features(df) ==
    LET text == TfidfFitTransform(df)
        beh  == ScalerFitTransform(df)
    IN  [tfidf |-> text.model,
         scaler |-> beh.model,
         features |->
            [rows |-> [i \in 1..Len(df) |-> [num |-> beh.block[i], txt |-> text.block[i]]],
             den |-> [c \in ColumnSet |-> ScaleDen(beh.model, c)],
             space |-> [tfidf |-> text.model, scaler |-> beh.model]]]

(***************************************************************************)
(* NearestNeighbors(metric='cosine'): fit and kneighbors                   *)
(***************************************************************************)
RECURSIVE ProdOver(_, _)
ProdOver(f, S) ==
    IF S = {} THEN 1
    ELSE LET c == CHOOSE x \in S : TRUE IN f[c] * ProdOver(f, S \ {c})

RECURSIVE SumOver(_, _)
SumOver(f, S) ==
    IF S = {} THEN 0
    ELSE LET c == CHOOSE x \in S : TRUE IN f[c] + SumOver(f, S \ {c})

\* the dot product of two rows of X, times the product of the denominators
Dot(X, a, b) ==
    LET P == ProdOver(X.den, ColumnSet)
    IN  SumOver([c \in ColumnSet |-> a.num[c] * b.num[c] * (P \div X.den[c])], ColumnSet)
        + (IF a.txt # "" /\ a.txt = b.txt THEN P ELSE 0)

RECURSIVE GCD(_, _)
GCD(a, b) == IF b = 0 THEN a ELSE GCD(b, a % b)

\* the cosine similarity s * sqrt(n/d) of two rows, in lowest terms; a zero
\* vector has similarity 0 to every vector.  The cosine distance is 1 minus
\* it.
Cosine(X, a, b) ==
    LET ab == Dot(X, a, b)
        aa == Dot(X, a, a)
        bb == Dot(X, b, b)
    IN  IF aa = 0 \/ bb = 0 \/ ab = 0 THEN [s |-> 0, n |-> 0, d |-> 1]
        ELSE LET g == GCD(ab * ab, aa * bb)
             IN  [s |-> IF ab < 0 THEN 0 - 1 ELSE 1,
                  n |-> (ab * ab) \div g,
                  d |-> (aa * bb) \div g]

\* distance 1 - k1 <= distance 1 - k2
DistLe(k1, k2) == k2.s * k2.n * k1.d <= k1.s * k1.n * k2.d

Injective(f) == \A j, k \in DOMAIN f : j # k => f[j] # f[k]

\* the cosine distances from q to the first j fitted rows
RECURSIVE Distances(_, _, _)
Distances(X, q, j) ==
    IF j = 0 THEN <<>>
    ELSE Append(Distances(X, q, j - 1), Cosine(X, q, X.rows[j]))

\* kneighbors(q, n_neighbors=k) on the fitted rows: the k nearest row indices
\* by increasing cosine distance, with their distances.  The order among
\* rows at equal distance is not specified, so every order is an outcome.
kneighbors(X, q, k) ==
    LET N == Len(X.rows)
        dist == Distances(X, q, N)
        nearest == {nb \in [1..k -> 1..N] :
                       /\ Injective(nb)
                       /\ \A j \in 1..(k - 1) : DistLe(dist[nb[j]], dist[nb[j + 1]])
                       /\ \A o \in (1..N) \ {nb[j] : j \in 1..k} :
                              DistLe(dist[nb[k]], dist[o])}
    IN  {[distances |-> [j \in 1..k |-> dist[nb[j]]], indices |-> nb] : nb \in nearest}

\* line 38
KnnFit(X) == [fitted |-> TRUE, X |-> X]

DropFirst(q) == SubSeq(q, 2, Len(q))

\* a query that does not check that the index was fitted
get_recommendations_unchecked(knn, q, n) ==
    IF ~knn.fitted THEN {[kind |-> "return", indices |-> <<>>, distances |-> <<>>]}
    ELSE IF n + 1 > Len(knn.X.rows) THEN {[kind |-> "raise", error |-> "ValueError"]}
    ELSE {[kind |-> "return",
           indices |-> DropFirst(r.indices),
           distances |-> DropFirst(r.distances)] : r \in kneighbors(knn.X, q, n + 1)}

\* lines 41-47: the outcomes of get_recommendations(q, n); kneighbors raises
\* NotFittedError on an index that was not fitted and ValueError when asked
\* for more neighbors than fitted rows
get_recommendations(knn, q, n) ==
    IF ~knn.fitted THEN {[kind |-> "raise", error |-> "NotFittedError"]}
    ELSE IF n + 1 > Len(knn.X.rows) THEN {[kind |-> "raise", error |-> "ValueError"]}
    ELSE {[kind |-> "return",
           indices |-> DropFirst(r.indices),
           distances |-> DropFirst(r.distances)] : r \in kneighbors(knn.X, q, n + 1)}

(***************************************************************************)
(* Domain of the corpora                                                   *)
(***************************************************************************)
MaxPosts == 2
MaxRec   == 2

Post(art, comments, text) ==
    [avg_response_time |-> art, total_comments |-> Num(comments),
     comment_sentiment_mean |-> Num(0), avg_words_per_comment |-> Num(0),
     clean_text |-> text]

PostVals ==
    {Post(NaN, 1, "coffee"),
     Post(Num(1), 0, "hiking"),
     Post(Num(1), 1, "the")}

\* corpora on which fit_transform finds a vocabulary
Corpora == {df \in SeqsUpTo(PostVals, MaxPosts) : Vocabulary(df) # {}}

(***************************************************************************)
(* Parts of the state a specification leaves alone                         *)
(***************************************************************************)
ScoreIdle ==
    /\ sc_prefs = [communication_style |-> "neutral"]
    /\ sc_row = [avg_response_time |-> NaN]
    /\ sc_out = NoCall
MatchIdle ==
    /\ behavior_data = <<>>
    /\ preferences = [communication_style |-> "neutral"]
    /\ n_recommendations = 0
    /\ pc = "idle"
    /\ idx = 0
    /\ matches = <<>>
    /\ fm_out = [kind |-> "none", value |-> <<>>]
    /\ stdout = 0
    /\ profile_out = [kind |-> "none"]
RecIdle ==
    /\ tfidf = Unfitted
    /\ scaler = Unfitted
    /\ knn_model = Unfitted
    /\ features = NoFeatures
    /\ rec_out = [kind |-> "none"]
DataIdle ==
    /\ dp_in = <<>>
    /\ dp_out = [kind |-> "none"]

(***************************************************************************)
(* SpecScore: calculate_match_score applied once to any row and any        *)
(* Preferences value of the domains above                                  *)
(***************************************************************************)
InitScore ==
    /\ sc_prefs \in PrefsDomain
    /\ sc_row \in ScoreRows
    /\ sc_out = NoCall
    /\ MatchIdle
    /\ RecIdle
    /\ DataIdle

Score ==
    /\ sc_out = NoCall
    /\ sc_out' = calculate_match_score(sc_prefs, sc_row)
    /\ UNCHANGED <<sc_prefs, sc_row, match_vars, rec_vars, data_vars>>

NextScore == Score
SpecScore == InitScore /\ [][NextScore]_vars

Scored == sc_out.kind # "none"

\* C1: on the normal path and on the exception path alike, the returned
\* score s satisfies 0 <= s <= 100
C1_ScoreInRange ==
    Scored => /\ sc_out.kind = "return"
              /\ 0 <= sc_out.score
              /\ sc_out.score <= 100 * ScoreScale

\* a call on the normal path to which both penalty multipliers applied
C1_Witness ==
    /\ Scored
    /\ ~sc_out.warned
    /\ SlowPenalty(sc_prefs, sc_row)
    /\ NegativePenalty(sc_prefs, sc_row)
    /\ sc_out.score > 0

\* the exception path was taken and returned
C1_WitnessError == Scored /\ sc_out.warned

\* the style label of a sentiment, in the label values a Preferences uses
PreferenceStyleOf(sentiment) ==
    IF Gt(sentiment, Tenths(2)) THEN "positive"
    ELSE IF Lt(sentiment, Tenths(0 - 2)) THEN "critical"
    ELSE "neutral"

AllFourMatch(prefs, user_data) ==
    /\ WellFormed(prefs)
    /\ PreferenceStyleOf(user_data.sentiment_mean) = prefs["communication_style"]
    /\ IsNum(user_data.avg_response_time)
    /\ AbsInt(user_data.avg_response_time.v - prefs["response_time"].v) <= QuartersPerHour
    /\ user_data.engagement_level = prefs["engagement_level"]
    /\ user_data.message_frequency = ExpectedFreq[prefs["engagement_level"]]
    /\ ~SlowPenalty(prefs, user_data)
    /\ ~NegativePenalty(prefs, user_data)

\* C2: a profile that matches the preferences on all four components, with
\* no penalty condition, scores exactly 100
C2_FullMatchScores100 ==
    (Scored /\ AllFourMatch(sc_prefs, sc_row)) => sc_out.score = 100 * ScoreScale

\* what the four-way match scores in the code: the style component is lost
C2_FullMatchScoresWithoutStyle ==
    (Scored /\ AllFourMatch(sc_prefs, sc_row)) =>
        sc_out.score = (IF sc_prefs["communication_style"] = "neutral"
                        THEN ((2 * 100 - W_communication_style) * ScoreScale) \div 2
                        ELSE (100 - W_communication_style) * ScoreScale)

ClaimedStyleComponent(profile_style, preferred) ==
    IF profile_style = preferred THEN W_communication_style * ScoreScale
    ELSE IF (profile_style = "neutral" /\ preferred # "critical")
            \/ (preferred = "neutral" /\ profile_style # "critical")
    THEN (W_communication_style * ScoreScale) \div 2
    ELSE 0

\* C3: the style component is 35 for equal styles, 17.5 when the styles
\* differ, one is neutral and the other is not critical, 0 otherwise, the
\* profile style being derived from sentiment_mean in the preference's labels
C3_StyleComponentTable ==
    (Scored /\ ~sc_out.warned
       /\ sc_prefs["communication_style"] \in {"positive", "neutral", "critical"}) =>
        StyleComponent(sc_prefs, sc_row)
            = ClaimedStyleComponent(PreferenceStyleOf(sc_row.sentiment_mean),
                                    sc_prefs["communication_style"])

\* the arithmetic of the model is exact: no division above ever truncates
ScoreArithmeticExact ==
    \A prefs \in {sc_prefs} : \A row \in {sc_row} :
        (Scored /\ ~sc_out.warned) =>
            LET s0 == StyleComponent(prefs, row) + TimeComponent(prefs, row)
                      + EngagementComponent(prefs, row) + ActivityComponent(prefs, row)
            IN  /\ s0 % 50 = 0
                /\ (W_response_time * ScoreScale * TimeScore(prefs, row)) % TimeFracDen = 0

(***************************************************************************)
(* BehaviorAnalyzer.get_user_profile                                       *)
(*                                                                         *)
(* The profile table is a sequence of rows in index order; the author of   *)
(* row i is i, so the index holds every author once.  weekend_activity is  *)
(* the fraction n/d of an author's posts flagged weekend.                  *)
(* avg_message_length is read by no operation modelled here.               *)
(***************************************************************************)
RoundHalfEven(num, den) ==
    LET q == num \div den
        r == num % den
    IN  IF 2 * r < den THEN q
        ELSE IF 2 * r > den THEN q + 1
        ELSE IF q % 2 = 0 THEN q ELSE q + 1

\* format(num/den, ".1f") for a value >= 0
FormatFixed1(num, den) ==
    LET t == RoundHalfEven(10 * num, den)
    IN  ToString(t \div 10) \o "." \o ToString(t % 10)

FormatHours(a) ==
    IF IsNum(a) THEN FormatFixed1(a.v, QuartersPerHour) \o " hours" ELSE "nan hours"
FormatPercent(w) == FormatFixed1(100 * w.n, w.d) \o "%"

DefaultProfile ==
    [messaging_patterns |-> [response_time |-> "0 hours", message_frequency |-> 0],
     engagement_profile |-> [engagement_level |-> "medium"],
     communication_style |-> "neutral",
     activity_pattern |-> [active_hours |-> 0, weekend_activity |-> "0%"]]

InIndex(user, table) == user \in 1..Len(table)

get_user_profile(user, table) ==
    IF ~InIndex(user, table) THEN DefaultProfile
    ELSE LET profile == table[user]
         IN  [messaging_patterns |->
                  [response_time |-> FormatHours(profile.avg_response_time),
                   message_frequency |-> profile.message_frequency],
              engagement_profile |-> [engagement_level |-> profile.engagement_level],
              communication_style |-> _get_communication_style(profile),
              activity_pattern |->
                  [active_hours |-> profile.active_hours,
                   weekend_activity |-> FormatPercent(profile.weekend_activity)]]

(***************************************************************************)
(* RedditDatingAnalysis.find_matches                                       *)
(***************************************************************************)
ScoreOf(m) == m.score

\* list.sort(key=score, reverse=True): stable, equal scores keep their order
RECURSIVE InsertDesc(_, _)
InsertDesc(sorted, x) ==
    IF sorted = <<>> THEN <<x>>
    ELSE IF ScoreOf(Head(sorted)) >= ScoreOf(x)
    THEN <<Head(sorted)>> \o InsertDesc(Tail(sorted), x)
    ELSE <<x>> \o sorted

RECURSIVE SortDescFrom(_, _)
SortDescFrom(sorted, rest) ==
    IF rest = <<>> THEN sorted
    ELSE SortDescFrom(InsertDesc(sorted, Head(rest)), Tail(rest))

Reverse(seq) == [j \in 1..Len(seq) |-> seq[Len(seq) + 1 - j]]

\* an ascending stable sort read backwards: equal scores come out reversed
SortAscendingReversed(ms) == Reverse(SortDescFrom(<<>>, Reverse(ms)))

SortByScoreDesc(ms) == SortDescFrom(<<>>, ms)

\* matches[:n_recommendations] for n_recommendations >= 0
Truncate(ms, n) == SubSeq(ms, 1, MinInt(n, Len(ms)))

(***************************************************************************)
(* Domain of the profile rows a table holds and of the calls               *)
(***************************************************************************)
MaxUsers == 3
MaxN     == 3

Row(art, freq, sent, eng, hours, weekend) ==
    [avg_response_time |-> Num(art), message_frequency |-> freq,
     sentiment_mean |-> Tenths(sent), engagement_level |-> eng,
     active_hours |-> hours, weekend_activity |-> [n |-> weekend, d |-> freq]]

TableRows ==
    {Row(4, 5, 3, "high", 3, 2),
     Row(3, 5, 3, "high", 1, 0),
     Row(5, 3, 0, "medium", 2, 1),
     Row(100, 1, 0 - 6, "low", 1, 1)}

Tables == SeqsUpTo(TableRows, MaxUsers)

Pref(style, rt, eng) ==
    [communication_style |-> style, response_time |-> rt, engagement_level |-> eng]

CallPrefs ==
    {Pref("positive", Hours(1), "high"),
     Pref("neutral", Hours(6), "medium"),
     Pref("critical", Hours(24), "low"),
     Pref("flirty", Hours(1), "high"),
     Pref("positive", Hours(1), "extreme"),
     Pref("neutral", NotANumber, "medium"),
     WithoutKey(Pref("positive", Hours(1), "high"), "engagement_level"),
     WithoutKey(Pref("neutral", Hours(6), "low"), "communication_style")}

NoResult == [kind |-> "none", value |-> <<>>]
NoProfile == [kind |-> "none"]

(***************************************************************************)
(* Spec: one find_matches call over a profile table, one step per          *)
(* candidate of the loop, and get_user_profile lookups outside the call    *)
(***************************************************************************)
Init ==
    /\ behavior_data \in Tables
    /\ preferences = [communication_style |-> "neutral"]
    /\ n_recommendations = 0
    /\ pc = "idle"
    /\ idx = 0
    /\ matches = <<>>
    /\ fm_out = NoResult
    /\ stdout = 0
    /\ profile_out = NoProfile
    /\ ScoreIdle
    /\ RecIdle
    /\ DataIdle

\* line 175-177: the call and matches = []
FindMatches(prefs, n) ==
    /\ pc = "idle"
    /\ preferences' = prefs
    /\ n_recommendations' = n
    /\ matches' = <<>>
    /\ idx' = 1
    /\ pc' = "loop"
    /\ UNCHANGED <<behavior_data, fm_out, stdout, profile_out, score_vars, rec_vars, data_vars>>

\* lines 179-187: one iteration; an exception leaving a callee ends the call
ScoreCandidate ==
    /\ pc = "loop"
    /\ idx <= Len(behavior_data)
    /\ LET user_data == behavior_data[idx]
           res == calculate_match_score(preferences, user_data)
       IN  IF res.kind = "raise"
           THEN /\ pc' = "done"
                /\ fm_out' = [kind |-> "raise", value |-> <<>>]
                /\ UNCHANGED <<matches, idx, stdout>>
           ELSE /\ matches' = Append(matches,
                                     [user |-> idx, score |-> res.score,
                                      profile |-> get_user_profile(idx, behavior_data)])
                /\ idx' = idx + 1
                /\ stdout' = IF res.warned THEN stdout + 1 ELSE stdout
                /\ UNCHANGED <<pc, fm_out>>
    /\ UNCHANGED <<behavior_data, preferences, n_recommendations, profile_out,
                   score_vars, rec_vars, data_vars>>

\* lines 189-191
SortAndReturn ==
    /\ pc = "loop"
    /\ idx > Len(behavior_data)
    /\ matches' = SortByScoreDesc(matches)
    /\ fm_out' = [kind |-> "return", value |-> Truncate(matches', n_recommendations)]
    /\ pc' = "done"
    /\ UNCHANGED <<behavior_data, preferences, n_recommendations, idx, stdout,
                   profile_out, score_vars, rec_vars, data_vars>>

\* behavior_analyzer.py lines 25-49, called by a client of the table
GetUserProfile(user) ==
    /\ pc \in {"idle", "done"}
    /\ profile_out' = [kind |-> "return", user |-> user,
                       value |-> get_user_profile(user, behavior_data)]
    /\ UNCHANGED <<behavior_data, preferences, n_recommendations, pc, idx, matches,
                   fm_out, stdout, score_vars, rec_vars, data_vars>>

Next ==
    \/ \E prefs \in CallPrefs, n \in 0..MaxN : FindMatches(prefs, n)
    \/ ScoreCandidate
    \/ SortAndReturn
    \/ \E user \in 1..(MaxUsers + 1) : GetUserProfile(user)

Spec == Init /\ [][Next]_vars

Returned == pc = "done" /\ fm_out.kind = "return"
CandidateScore(i) == calculate_match_score(preferences, behavior_data[i]).score
ReturnedUsers == {fm_out.value[j].user : j \in 1..Len(fm_out.value)}

\* C4: the result is ordered by score descending, equal scores in the order
\* of the profile table, cut to the first n: its length is min(n, number of
\* profiles), no author occurs twice, and no omitted candidate scores
\* strictly more than a returned one
C4_RankedTopN ==
    Returned =>
        LET r == fm_out.value
        IN  /\ Len(r) = MinInt(n_recommendations, Len(behavior_data))
            /\ \A j \in 1..Len(r) :
                   /\ InIndex(r[j].user, behavior_data)
                   /\ r[j].score = CandidateScore(r[j].user)
            /\ \A j, k \in 1..Len(r) :
                   j < k => /\ r[j].user # r[k].user
                            /\ r[j].score >= r[k].score
                            /\ (r[j].score = r[k].score => r[j].user < r[k].user)
            /\ \A i \in (1..Len(behavior_data)) \ ReturnedUsers :
                   \A j \in 1..Len(r) :
                       /\ CandidateScore(i) <= r[j].score
                       /\ (CandidateScore(i) = r[j].score => r[j].user < i)

\* three candidates, the two returned ones tied on a positive score, and a
\* third one cut off
C4_Witness ==
    /\ Returned
    /\ Len(behavior_data) = 3
    /\ Len(fm_out.value) = 2
    /\ fm_out.value[1].score = fm_out.value[2].score
    /\ fm_out.value[1].score > 0
    /\ \E i \in 1..3 : i \notin ReturnedUsers /\ CandidateScore(i) < fm_out.value[2].score

C6_MalformedPreferencesFatal ==
    (pc = "done" /\ ~WellFormed(preferences) /\ Len(behavior_data) >= 1) =>
        (fm_out.kind = "raise" /\ fm_out.value = <<>>)

\* the style labels the view of a known author can carry
KnownViewStyles == {_get_communication_style([sentiment_mean |-> x]) : x \in SentVals}

\* C7: for an author outside the table get_user_profile returns the default
\* view medium / neutral / 0 / 0 / "0.0 hours" / "0.0%", in the one-decimal
\* format and the style labels of a known author's view
C7_UnknownAuthorDefault ==
    (profile_out.kind = "return" /\ ~InIndex(profile_out.user, behavior_data)) =>
        LET v == profile_out.value
        IN  /\ v.engagement_profile.engagement_level = "medium"
            /\ v.communication_style = "neutral"
            /\ v.communication_style \in KnownViewStyles
            /\ v.messaging_patterns.message_frequency = 0
            /\ v.activity_pattern.active_hours = 0
            /\ v.messaging_patterns.response_time = "0.0 hours"
            /\ v.messaging_patterns.response_time = FormatHours(Hours(0))
            /\ v.activity_pattern.weekend_activity = "0.0%"
            /\ v.activity_pattern.weekend_activity = FormatPercent([n |-> 0, d |-> 1])

\* what the lookup of an unknown author does return
C7_UnknownAuthorLiteral ==
    (profile_out.kind = "return" /\ ~InIndex(profile_out.user, behavior_data)) =>
        profile_out.value = DefaultProfile

\* the view of a known author is formatted with one decimal
KnownAuthorFormat ==
    (profile_out.kind = "return" /\ InIndex(profile_out.user, behavior_data)) =>
        LET v == profile_out.value
        IN  /\ v.messaging_patterns.response_time \in
                   {"0.8 hours", "1.0 hours", "1.2 hours", "25.0 hours"}
            /\ v.activity_pattern.weekend_activity \in
                   {"0.0%", "40.0%", "33.3%", "100.0%"}
            /\ v.communication_style \in {"Positive", "Neutral", "Critical"}


(***************************************************************************)
(* Specification SpecRec: the calls on one RecommendationSystem            *)
(*                                                                         *)
(* features is the matrix the caller holds from the latest                 *)
(* prepare_features (main.py line 75) and passes to fit (line 79); rec_out *)
(* is the record of the latest call.  A query vector is a row of the       *)
(* matrix the index was fitted on, before that a row of the prepared       *)
(* matrix, and before that a vector of no coordinates.                     *)
(***************************************************************************)
\* prepare_features on every corpus of the domain
Prepared == [df \in Corpora |-> prepare_features(df)]

InitRec ==
    /\ ScoreIdle
    /\ MatchIdle
    /\ DataIdle
    /\ tfidf = Unfitted
    /\ scaler = Unfitted
    /\ knn_model = Unfitted
    /\ features = NoFeatures
    /\ rec_out = [kind |-> "none"]

PrepareFeatures(df) ==
    LET r == Prepared[df]
    IN  /\ tfidf' = r.tfidf
        /\ scaler' = r.scaler
        /\ features' = r.features
        /\ rec_out' = [kind |-> "prepared", df |-> df]
        /\ UNCHANGED <<knn_model, score_vars, match_vars, data_vars>>

Fit ==
    /\ features # NoFeatures
    /\ knn_model' = KnnFit(features)
    /\ rec_out' = [kind |-> "fitted"]
    /\ UNCHANGED <<tfidf, scaler, features, score_vars, match_vars, data_vars>>

QuerySource == IF knn_model.fitted THEN knn_model.X ELSE features
NoVector == [num |-> [c \in ColumnSet |-> 0], txt |-> ""]
QueryRows == IF QuerySource.rows = <<>> THEN {0} ELSE 1..Len(QuerySource.rows)
QueryVector(i) == IF i = 0 THEN NoVector ELSE QuerySource.rows[i]

GetRecommendations(i, n) ==
    /\ \E out \in get_recommendations(knn_model, QueryVector(i), n) :
          rec_out' = [call |-> "get_recommendations", query |-> i, n |-> n] @@ out
    /\ UNCHANGED <<tfidf, scaler, knn_model, features, score_vars, match_vars, data_vars>>

NextRec ==
    \/ \E df \in Corpora : PrepareFeatures(df)
    \/ Fit
    \/ \E i \in QueryRows, n \in 1..MaxRec : GetRecommendations(i, n)

SpecRec == InitRec /\ [][NextRec]_vars

Queried == "call" \in DOMAIN rec_out


HeldSpace == [tfidf |-> tfidf, scaler |-> scaler]

(***************************************************************************)
(* C8 as stated: the vectorizer and the standardizer are fitted exactly    *)
(* once, so that in every reachable state a fitted index was built in the  *)
(* coordinate space of the models the system holds.                        *)
(***************************************************************************)
C8_FittedExactlyOnce ==
    knn_model.fitted => knn_model.X.space = HeldSpace

(***************************************************************************)
(* C8 amended: every prepare_features call refits the vectorizer and the   *)
(* standardizer on the corpus it is given, and no fit or                   *)
(* get_recommendations call changes them; a fitted index is in the         *)
(* coordinate space of the held models whenever it was fitted on the       *)
(* matrix of the latest prepare_features call.                             *)
(***************************************************************************)
C8_RefittedByEveryPrepare ==
    /\ [](/\ rec_out.kind = "prepared" =>
               /\ tfidf = TfidfFit(rec_out.df)
               /\ scaler = ScalerFit(rec_out.df)
               /\ features.space = HeldSpace
          /\ (knn_model.fitted /\ knn_model.X = features) =>
               knn_model.X.space = HeldSpace)
    /\ [][(tfidf' # tfidf \/ scaler' # scaler) => rec_out'.kind = "prepared"]_vars

\* prepare_features was called again after fit and refitted the models
C8_Witness ==
    /\ knn_model.fitted
    /\ rec_out.kind = "prepared"
    /\ knn_model.X.space # HeldSpace

(***************************************************************************)
(* C9: a returned result of get_recommendations(q, n), q a row of the      *)
(* fitted matrix, never holds the index of q; it holds exactly n distinct  *)
(* other rows with their cosine distances to q, in non-decreasing order of *)
(* distance, and no other row left out is nearer than a returned one.      *)
(***************************************************************************)
C9_NearestOthersWithoutQuery ==
    (Queried /\ rec_out.kind = "return") =>
        LET X == knn_model.X
            q == X.rows[rec_out.query]
            ids == rec_out.indices
            others == (1..Len(X.rows)) \ {rec_out.query}
        IN  /\ Len(ids) = rec_out.n
            /\ Len(rec_out.distances) = rec_out.n
            /\ Injective(ids)
            /\ \A j \in 1..Len(ids) :
                   /\ ids[j] \in others
                   /\ rec_out.distances[j] = Cosine(X, q, X.rows[ids[j]])
            /\ \A j \in 1..(Len(ids) - 1) :
                   DistLe(rec_out.distances[j], rec_out.distances[j + 1])
            /\ \A o \in others \ {ids[j] : j \in 1..Len(ids)} :
                   \A j \in 1..Len(ids) :
                       DistLe(rec_out.distances[j], Cosine(X, q, X.rows[o]))

(***************************************************************************)
(* C10: a get_recommendations call made while the nearest-neighbour index  *)
(* has not been fitted ends in the error of the unfitted index and returns *)
(* no neighbours.                                                          *)
(***************************************************************************)
C10_QueryBeforeFitRaises ==
    (Queried /\ ~knn_model.fitted) =>
        /\ rec_out.kind = "raise"
        /\ rec_out.error = "NotFittedError"
        /\ "indices" \notin DOMAIN rec_out

\* features were prepared and queried with one of their rows, before any fit
C10_Witness ==
    /\ Queried
    /\ ~knn_model.fitted
    /\ features # NoFeatures
    /\ rec_out.query \in 1..Len(features.rows)


(***************************************************************************)
(* BehaviorAnalyzer.analyze_user_behavior                                  *)
(*                                                                         *)
(* A processed table is a sequence of posts.  An author is a string or     *)
(* missing (None/NaN); a comparison with a missing author is false, as in  *)
(* pandas.  A mean is a fraction in lowest terms, NaN over no values.      *)
(***************************************************************************)
Author(name)  == [t |-> "str", v |-> name]
MissingAuthor == [t |-> "nan", v |-> ""]

Range(q) == {q[j] : j \in 1..Len(q)}

\* df['author'].unique(): the distinct values in order of first appearance,
\* a missing author among them
RECURSIVE Unique(_)
Unique(q) ==
    IF q = <<>> THEN <<>>
    ELSE LET first == Unique(SubSeq(q, 1, Len(q) - 1))
             last  == q[Len(q)]
         IN  IF last \in Range(first) THEN first ELSE Append(first, last)

\* df[df['author'] == user]
AuthorEq(a, user) == a.t = "str" /\ user.t = "str" /\ a.v = user.v
UserPosts(df, user) == SelectSeq(df, LAMBDA post : AuthorEq(post.author, user))

Fraction(p, q) ==
    LET g == GCD(AbsInt(p), q)
    IN  [t |-> "num", p |-> p \div g, q |-> q \div g]
NaNFraction == [t |-> "nan", p |-> 0, q |-> 1]

\* Series.mean()
Mean(q) == IF q = <<>> THEN NaNFraction ELSE Fraction(SumSeq(q), Len(q))

\* categories of pd.cut(labels=['low', 'medium', 'high']), in their order
EngagementCategories == <<"low", "medium", "high">>
CategoryCode(level) == CHOOSE c \in 1..Len(EngagementCategories) : EngagementCategories[c] = level

\* Series.mode().iloc[0] of a categorical column: the modes come sorted by
\* category, so the first is the lowest of the most frequent categories
ModeFirst(levels) ==
    LET count(level) == Cardinality({j \in 1..Len(levels) : levels[j] = level})
        modes == {c \in 1..Len(EngagementCategories) :
                     /\ count(EngagementCategories[c]) >= 1
                     /\ \A o \in 1..Len(EngagementCategories) :
                            count(EngagementCategories[o]) <= count(EngagementCategories[c])}
    IN  EngagementCategories[CHOOSE c \in modes : \A o \in modes : c <= o]

FieldOf(posts, field) == [j \in 1..Len(posts) |-> posts[j][field]]
FieldFillNa0(posts, field) == [j \in 1..Len(posts) |-> FillNa0(posts[j][field])]

\* lines 12-21: the metrics of one value of df['author'].unique()
UserMetrics(df, user) ==
    LET user_posts == UserPosts(df, user)
    IN  [author |-> user,
         avg_response_time |-> Mean(FieldFillNa0(user_posts, "avg_response_time")),
         message_frequency |-> Len(user_posts),
         avg_message_length |-> Mean(FieldFillNa0(user_posts, "avg_words_per_comment")),
         sentiment_mean |-> Mean(FieldFillNa0(user_posts, "comment_sentiment_mean")),
         engagement_level |-> IF user_posts # <<>>
                              THEN ModeFirst(FieldOf(user_posts, "engagement_level"))
                              ELSE "medium",
         active_hours |-> Cardinality(Range(FieldOf(user_posts, "hour_posted"))),
         weekend_activity |-> Mean(FieldOf(user_posts, "is_weekend"))]

\* lines 7-23: one row per value of unique(), in that order
analyze_user_behavior(df) ==
    LET users == Unique(FieldOf(df, "author"))
    IN  [j \in 1..Len(users) |-> UserMetrics(df, users[j])]

(***************************************************************************)
(* Domain of the processed tables                                          *)
(***************************************************************************)
MaxProcessed == 3

ProcessedPost(author, art, words, sentiment, level, hour, weekend) ==
    [author |-> author, avg_response_time |-> art,
     avg_words_per_comment |-> Num(words), comment_sentiment_mean |-> Tenths(sentiment),
     engagement_level |-> level, hour_posted |-> hour, is_weekend |-> weekend]

ProcessedPosts ==
    {ProcessedPost(Author("alice"), Hours(1), 3, 2, "medium", 9, 0),
     ProcessedPost(Author("alice"), NaN, 5, 0 - 3, "low", 21, 1),
     ProcessedPost(Author("alice"), Hours(2), 0, 0, "high", 9, 1),
     ProcessedPost(Author("bob"), Hours(30), 4, 5, "high", 13, 0),
     ProcessedPost(Author("bob"), Hours(0), 0, 0, "medium", 13, 0),
     ProcessedPost(MissingAuthor, Hours(1), 2, 1, "medium", 7, 0)}

ProcessedTables == SeqsUpTo(ProcessedPosts, MaxProcessed)

NoOutput == [kind |-> "none"]

(***************************************************************************)
(* SpecProfiles: analyze_user_behavior applied once to any processed table *)
(***************************************************************************)
DataRest ==
    /\ ScoreIdle
    /\ MatchIdle
    /\ RecIdle

InitProfiles ==
    /\ dp_in \in ProcessedTables
    /\ dp_out = NoOutput
    /\ DataRest

AnalyzeUserBehavior ==
    /\ dp_out = NoOutput
    /\ dp_out' = [kind |-> "return", value |-> analyze_user_behavior(dp_in)]
    /\ UNCHANGED <<dp_in, score_vars, match_vars, rec_vars>>

NextProfiles == AnalyzeUserBehavior
SpecProfiles == InitProfiles /\ [][NextProfiles]_vars

Analyzed == dp_out.kind = "return"

(***************************************************************************)
(* C11: analyze_user_behavior returns exactly one profile per distinct     *)
(* author value of the posts, every profile has message_frequency >= 1     *)
(* and the message_frequency values sum to the number of posts, also when  *)
(* some posts have a missing author.                                       *)
(***************************************************************************)
C11_OneProfilePerAuthorWithPosts ==
    Analyzed =>
        LET profiles == dp_out.value
        IN  /\ Injective(FieldOf(profiles, "author"))
            /\ Range(FieldOf(profiles, "author")) = Range(FieldOf(dp_in, "author"))
            /\ \A j \in 1..Len(profiles) : profiles[j].message_frequency >= 1
            /\ SumSeq(FieldOf(profiles, "message_frequency")) = Len(dp_in)

\* what holds of the profiles of the authors that are not missing
C11_NamedAuthorsCounted ==
    Analyzed =>
        \A j \in 1..Len(dp_out.value) :
            LET profile == dp_out.value[j]
            IN  profile.author.t = "str" =>
                    /\ profile.message_frequency >= 1
                    /\ profile.message_frequency =
                           Cardinality({k \in 1..Len(dp_in) : dp_in[k].author = profile.author})


\* a table with posts of a named author and of a missing author was analysed
C11_MissingAuthorAnalyzed ==
    /\ Analyzed
    /\ \E j, k \in 1..Len(dp_in) : dp_in[j].author.t = "str" /\ dp_in[k].author.t = "nan"


\* the most frequent value of a sequence and, among equally frequent values,
\* the one that occurs first in it
FirstMostFrequent(levels) ==
    LET count(level) == Cardinality({j \in 1..Len(levels) : levels[j] = level})
        first == CHOOSE j \in 1..Len(levels) :
                    /\ \A k \in 1..Len(levels) : count(levels[k]) <= count(levels[j])
                    /\ \A k \in 1..(j - 1) : count(levels[k]) < count(levels[j])
    IN  levels[first]

(***************************************************************************)
(* C14: the engagement_level of a profile is the most frequent engagement  *)
(* bin among the author's posts and, when several bins are equally         *)
(* frequent, the one of them that occurs first in the author's posts.      *)
(***************************************************************************)
C14_ModeTieFirstInPostOrder ==
    Analyzed =>
        \A j \in 1..Len(dp_out.value) :
            LET profile == dp_out.value[j]
                levels  == FieldOf(UserPosts(dp_in, profile.author), "engagement_level")
            IN  levels # <<>> => profile.engagement_level = FirstMostFrequent(levels)

\* what holds instead: among equally frequent bins the lowest in the order
\* low < medium < high is taken
C14_ModeTieLowestBin ==
    Analyzed =>
        \A j \in 1..Len(dp_out.value) :
            LET profile == dp_out.value[j]
                levels  == FieldOf(UserPosts(dp_in, profile.author), "engagement_level")
                count(level) == Cardinality({k \in 1..Len(levels) : levels[k] = level})
            IN  levels # <<>> =>
                    /\ profile.engagement_level \in Range(levels)
                    /\ \A k \in 1..Len(levels) :
                           \/ count(levels[k]) < count(profile.engagement_level)
                           \/ /\ count(levels[k]) = count(profile.engagement_level)
                              /\ CategoryCode(profile.engagement_level) <= CategoryCode(levels[k])


(***************************************************************************)
(* DataProcessor._clean_text                                               *)
(*                                                                         *)
(* A text is a sequence of characters, or missing (None/NaN).              *)
(***************************************************************************)
Text(chars) == [t |-> "str", v |-> chars]
MissingText == [t |-> "nan", v |-> <<>>]

LowerCase   == {"h", "t", "p", "w", "s", "x"}
SpaceChars  == {" ", "\n"}
\* \s and \S
IsSpace(c) == c \in SpaceChars
\* \w
IsWord(c)  == c \in LowerCase \cup {"X", "_"}

\* line 28: str.lower()
Lower(chars) == [j \in 1..Len(chars) |-> IF chars[j] = "X" THEN "x" ELSE chars[j]]

\* the alternatives of the pattern http\S+|www\S+|https\S+, in their order
UrlPrefixes == << <<"h", "t", "t", "p">>, <<"w", "w", "w">>, <<"h", "t", "t", "p", "s">> >>

StartsWithAt(chars, i, prefix) ==
    /\ i + Len(prefix) - 1 <= Len(chars)
    /\ SubSeq(chars, i, i + Len(prefix) - 1) = prefix

\* the last position of the run of non-space characters that holds i
RECURSIVE RunEnd(_, _)
RunEnd(chars, i) ==
    IF i < Len(chars) /\ ~IsSpace(chars[i + 1]) THEN RunEnd(chars, i + 1) ELSE i

\* the end of the match of the pattern at position i, 0 when there is none:
\* the first alternative whose prefix is followed by a non-space character
\* matches, and its greedy \S+ takes the whole run
MatchEnd(chars, i) ==
    LET matching == {k \in 1..Len(UrlPrefixes) :
                        /\ StartsWithAt(chars, i, UrlPrefixes[k])
                        /\ i + Len(UrlPrefixes[k]) <= Len(chars)
                        /\ ~IsSpace(chars[i + Len(UrlPrefixes[k])])}
    IN  IF matching = {} THEN 0
        ELSE LET k == CHOOSE a \in matching : \A b \in matching : a <= b
             IN  RunEnd(chars, i + Len(UrlPrefixes[k]))

\* line 29: re.sub of the pattern by '', scanning from position i
RECURSIVE RemoveUrls(_, _)
RemoveUrls(chars, i) ==
    IF i > Len(chars) THEN <<>>
    ELSE IF MatchEnd(chars, i) > 0 THEN RemoveUrls(chars, MatchEnd(chars, i) + 1)
    ELSE <<chars[i]>> \o RemoveUrls(chars, i + 1)

\* a cleaner that deletes punctuation
PunctuationDeleted(chars) == SelectSeq(chars, LAMBDA c : IsWord(c) \/ IsSpace(c))

\* line 30: re.sub(r'[^\w\s]', ' ', text)
PunctuationToSpace(chars) ==
    [j \in 1..Len(chars) |-> IF IsWord(chars[j]) \/ IsSpace(chars[j]) THEN chars[j] ELSE " "]

\* line 31: ' '.join(text.split()), from position i on with acc joined so far
RECURSIVE JoinSplit(_, _, _)
JoinSplit(chars, i, acc) ==
    IF i > Len(chars) THEN acc
    ELSE IF IsSpace(chars[i]) THEN JoinSplit(chars, i + 1, acc)
    ELSE IF acc # <<>> /\ IsSpace(chars[i - 1])
         THEN JoinSplit(chars, i + 1, acc \o <<" ", chars[i]>>)
         ELSE JoinSplit(chars, i + 1, Append(acc, chars[i]))

\* line 32: str.strip()
RECURSIVE Strip(_)
Strip(chars) ==
    IF chars = <<>> THEN chars
    ELSE IF IsSpace(Head(chars)) THEN Strip(Tail(chars))
    ELSE IF IsSpace(chars[Len(chars)]) THEN Strip(SubSeq(chars, 1, Len(chars) - 1))
    ELSE chars

\* lines 24-32
_clean_text(text) ==
    IF text.t = "nan" THEN <<>>
    ELSE Strip(JoinSplit(PunctuationToSpace(RemoveUrls(Lower(text.v), 1)), 1, <<>>))

(***************************************************************************)
(* Domain of the texts: up to MaxPieces pieces, one after the other        *)
(***************************************************************************)
MaxPieces == 4

Pieces ==
    {<<"h", "t", "t", "p">>, <<"w", "w", "w">>, <<"w">>, <<"s">>, <<"X">>,
     <<".">>, <<"_">>, <<" ">>, <<"\n">>}

RECURSIVE Concat(_)
Concat(pieces) == IF pieces = <<>> THEN <<>> ELSE Head(pieces) \o Concat(Tail(pieces))

Texts == {Text(Concat(pieces)) : pieces \in SeqsUpTo(Pieces, MaxPieces)} \cup {MissingText}

(***************************************************************************)
(* SpecClean: _clean_text applied to any text, and again to its result     *)
(***************************************************************************)
InitClean ==
    /\ dp_in \in Texts
    /\ dp_out = NoOutput
    /\ DataRest

CleanText ==
    /\ dp_out = NoOutput
    /\ dp_out' = [kind |-> "cleaned", value |-> _clean_text(dp_in)]
    /\ UNCHANGED <<dp_in, score_vars, match_vars, rec_vars>>

CleanTextAgain ==
    /\ dp_out.kind = "cleaned"
    /\ dp_out' = [kind |-> "cleaned twice", once |-> dp_out.value,
                  value |-> _clean_text(Text(dp_out.value))]
    /\ UNCHANGED <<dp_in, score_vars, match_vars, rec_vars>>

NextClean == CleanText \/ CleanTextAgain
SpecClean == InitClean /\ [][NextClean]_vars

(***************************************************************************)
(* C13: text normalisation is idempotent: cleaning the result of           *)
(* _clean_text again returns it unchanged.                                 *)
(***************************************************************************)
C13_CleanTextIdempotent ==
    dp_out.kind = "cleaned twice" => dp_out.value = dp_out.once

\* a text with a url, punctuation and a word left over was cleaned twice
C13_Witness ==
    /\ dp_out.kind = "cleaned twice"
    /\ dp_in.t = "str"
    /\ \E i \in 1..Len(dp_in.v) : MatchEnd(Lower(dp_in.v), i) > 0
    /\ \E i \in 1..Len(dp_in.v) : dp_in.v[i] = "."
    /\ dp_out.once # <<>>
    /\ dp_out.once # dp_in.v


(***************************************************************************)
(* DataProcessor._process_comments and _extract_comment_features           *)
(*                                                                         *)
(* A raw comment is a function from some of the keys author, text, score   *)
(* and created_utc to values; polarity stands for the polarity TextBlob    *)
(* gives its text.  A timestamp is counted in quarter hours.               *)
(***************************************************************************)
CommentKeys == {"author", "text", "score", "created_utc"}

\* len(str(text).split()); str(None) is the one word 'None'
RECURSIVE CountWords(_, _)
CountWords(chars, i) ==
    IF i > Len(chars) THEN 0
    ELSE (IF ~IsSpace(chars[i]) /\ (i = 1 \/ IsSpace(chars[i - 1])) THEN 1 ELSE 0)
         + CountWords(chars, i + 1)
WordCount(text) == IF text.t = "nan" THEN 1 ELSE CountWords(text.v, 1)

\* lines 114-130: a comment whose construction raises is skipped
RECURSIVE _process_comments(_)
_process_comments(comments) ==
    IF comments = <<>> THEN <<>>
    ELSE LET comment == Head(comments)
             rest == _process_comments(Tail(comments))
         IN  IF CommentKeys \subseteq DOMAIN comment
             THEN <<[author |-> comment.author,
                     text |-> _clean_text(comment.text),
                     score |-> comment.score,
                     created_utc |-> comment.created_utc,
                     word_count |-> WordCount(comment.text),
                     sentiment |-> comment.polarity]>> \o rest
             ELSE rest

\* sorted(), by insertion
RECURSIVE InsertAsc(_, _)
InsertAsc(sorted, x) ==
    IF sorted = <<>> THEN <<x>>
    ELSE IF Head(sorted) <= x THEN <<Head(sorted)>> \o InsertAsc(Tail(sorted), x)
    ELSE <<x>> \o sorted
RECURSIVE SortAsc(_)
SortAsc(q) == IF q = <<>> THEN <<>> ELSE InsertAsc(SortAsc(Tail(q)), Head(q))

\* times taken in the order of the comments
TimesUnsorted(comments) == FieldOf(comments, "created_utc")

\* line 161
TimesSorted(comments) == SortAsc(FieldOf(comments, "created_utc"))

\* lines 159-163: the differences of consecutive times, in quarter hours
_calculate_response_times(comments) ==
    LET times == TimesSorted(comments)
    IN  [i \in 1..(Len(times) - 1) |-> times[i + 1] - times[i]]

Zero == Fraction(0, 1)

\* lines 150-157
_get_default_comment_features ==
    [avg_comment_length |-> Zero, total_comments |-> 0, avg_words_per_comment |-> Zero,
     comment_sentiment_mean |-> Zero, avg_response_time |-> Zero]

\* lines 132-148; the response times are turned into hours
_extract_comment_features(comments) ==
    IF comments = <<>> THEN _get_default_comment_features
    ELSE LET response_times == _calculate_response_times(comments)
         IN  [avg_comment_length |-> Mean([j \in 1..Len(comments) |-> Len(comments[j].text)]),
              total_comments |-> Len(comments),
              avg_words_per_comment |-> Mean(FieldOf(comments, "word_count")),
              comment_sentiment_mean |-> Mean(FieldOf(comments, "sentiment")),
              avg_response_time |->
                  IF response_times # <<>>
                  THEN Fraction(SumSeq(response_times), QuartersPerHour * Len(response_times))
                  ELSE Zero]

(***************************************************************************)
(* Domain of the comment lists                                             *)
(***************************************************************************)
MaxComments == 3

RawComment(author, text, score, hour, polarity) ==
    [author |-> author, text |-> text, score |-> score,
     created_utc |-> hour * QuartersPerHour, polarity |-> polarity]

FullComments ==
    {RawComment("ann", Text(<<"X", " ", "s">>), 1, 0, 0),
     RawComment("ann", Text(<<"w", "w", "w", ".", "s", " ", "w">>), 3, 5, 5),
     RawComment("bob", MissingText, 0, 2, 0),
     RawComment("cyd", Text(<<"s">>), 2, 2, 0 - 5)}

RawComments ==
    FullComments
    \cup {WithoutKey(RawComment("bob", Text(<<"s">>), 1, 1, 0), "created_utc"),
          WithoutKey(RawComment("cyd", Text(<<"w">>), 1, 3, 5), "text")}

CommentLists == SeqsUpTo(RawComments, MaxComments)

(***************************************************************************)
(* SpecComments: the comment statistics of any comment list                *)
(***************************************************************************)
InitComments ==
    /\ dp_in \in CommentLists
    /\ dp_out = NoOutput
    /\ DataRest

ExtractCommentFeatures ==
    /\ dp_out = NoOutput
    /\ dp_out' = [kind |-> "return",
                  value |-> _extract_comment_features(_process_comments(dp_in))]
    /\ UNCHANGED <<dp_in, score_vars, match_vars, rec_vars>>

NextComments == ExtractCommentFeatures
SpecComments == InitComments /\ [][NextComments]_vars


\* the comments of the input that have the four keys
WellFormedComments == SelectSeq(dp_in, LAMBDA comment : CommentKeys \subseteq DOMAIN comment)

\* the mean, in hours, of the differences between consecutive times once
\* they are put in ascending order
MeanConsecutiveGap(times) ==
    LET n == Len(times)
        order == CHOOSE f \in [1..n -> 1..n] :
                    /\ Injective(f)
                    /\ \A i \in 1..(n - 1) : times[f[i]] <= times[f[i + 1]]
        gaps == [i \in 1..(n - 1) |-> times[order[i + 1]] - times[order[i]]]
    IN  Fraction(SumSeq(gaps), QuartersPerHour * (n - 1))

(***************************************************************************)
(* C17: avg_response_time of a comment list is the mean, in hours, of the  *)
(* differences between consecutive comment timestamps in ascending order   *)
(* (0h, 2h, 5h in any order give 2.5), it is 0 with fewer than two         *)
(* comments, and on an empty list all five comment statistics are 0.       *)
(* Comments are the comments of the list that have the four fields.        *)
(***************************************************************************)
C17_AvgResponseTime ==
    dp_out.kind = "return" =>
        LET times == FieldOf(WellFormedComments, "created_utc")
            stats == dp_out.value
        IN  /\ Len(times) >= 2 => stats.avg_response_time = MeanConsecutiveGap(times)
            /\ Len(times) < 2 => stats.avg_response_time = Zero
            /\ Len(times) = 0 =>
                   /\ stats.avg_comment_length = Zero
                   /\ stats.total_comments = 0
                   /\ stats.avg_words_per_comment = Zero
                   /\ stats.comment_sentiment_mean = Zero
            /\ Range(times) = {Hours(0).v, Hours(2).v, Hours(5).v} /\ Len(times) = 3 =>
                   stats.avg_response_time = Fraction(5, 2)

\* comments at 5h, 0h and 2h, in this order, gave 2.5
C17_Witness ==
    /\ dp_out.kind = "return"
    /\ Len(dp_in) = 3
    /\ WellFormedComments = dp_in
    /\ FieldOf(dp_in, "created_utc") = <<Hours(5).v, Hours(0).v, Hours(2).v>>
    /\ dp_out.value.avg_response_time = Fraction(5, 2)


(***************************************************************************)
(* DataProcessor._calculate_engagement_levels                              *)
(*                                                                         *)
(* The score is computed on fractions, exactly.                            *)
(***************************************************************************)
FracAdd(a, b) == Fraction(a.p * b.q + b.p * a.q, a.q * b.q)
\* a / b for b > 0
FracDiv(a, b) == Fraction(a.p * b.q, a.q * b.p)
FracLe(a, b)  == a.p * b.q <= b.p * a.q
FillNaFraction(a, default) == IF a.t = "nan" THEN default ELSE a

\* lines 168-172
EngagementScore(post) ==
    LET comments  == Fraction(post.total_comments, 1)
        response  == FillNaFraction(post.avg_response_time, Fraction(24, 1))
        sentiment == FillNaFraction(post.comment_sentiment_mean, Zero)
    IN  FracDiv(FracAdd(FracAdd(FracDiv(comments, Fraction(10, 1)),
                                FracDiv(Fraction(1, 1), FracAdd(Fraction(1, 1), response))),
                        FracDiv(FracAdd(sentiment, Fraction(1, 1)), Fraction(2, 1))),
                Fraction(3, 1))

LowEdge  == Fraction(3, 10)
HighEdge == Fraction(7, 10)

\* bins closed on the left: an edge belongs to the bin above it
CutLeftClosed(score) ==
    IF ~FracLe(LowEdge, score) THEN EngagementCategories[1]
    ELSE IF ~FracLe(HighEdge, score) THEN EngagementCategories[2]
    ELSE EngagementCategories[3]

\* lines 174-178: pd.cut with bins (-inf, 0.3], (0.3, 0.7], (0.7, inf]
Cut(score) ==
    IF FracLe(score, LowEdge) THEN EngagementCategories[1]
    ELSE IF FracLe(score, HighEdge) THEN EngagementCategories[2]
    ELSE EngagementCategories[3]

WithField(post, field, value) ==
    [k \in (DOMAIN post) \cup {field} |-> IF k = field THEN value ELSE post[k]]

\* lines 165-183, on a table that has the three columns
_calculate_engagement_levels(df) ==
    [j \in 1..Len(df) |-> WithField(df[j], "engagement_level", Cut(EngagementScore(df[j])))]

(***************************************************************************)
(* SpecEngagement: the engagement bins of any table of up to MaxScored     *)
(* posts                                                                   *)
(***************************************************************************)
MaxScored == 2

CommentCounts     == {0, 6, 7}
ResponseHours     == {NaNFraction, Zero, Fraction(1, 1), Fraction(5, 2)}
CommentSentiments == {NaNFraction, Fraction(0 - 1, 5), Fraction(1, 5)}

EngagementInputs ==
    [total_comments : CommentCounts, avg_response_time : ResponseHours,
     comment_sentiment_mean : CommentSentiments]

InitEngagement ==
    /\ dp_in \in SeqsUpTo(EngagementInputs, MaxScored)
    /\ dp_out = NoOutput
    /\ DataRest

CalculateEngagementLevels ==
    /\ dp_out = NoOutput
    /\ dp_out' = [kind |-> "return", value |-> _calculate_engagement_levels(dp_in)]
    /\ UNCHANGED <<dp_in, score_vars, match_vars, rec_vars>>

NextEngagement == CalculateEngagementLevels
SpecEngagement == InitEngagement /\ [][NextEngagement]_vars

\* three times the score of a post as the fraction ScoreNum / ScoreDen, from
\* the formula with missing values filled
ScoreNum(post) ==
    LET r == FillNaFraction(post.avg_response_time, Fraction(24, 1))
        m == FillNaFraction(post.comment_sentiment_mean, Zero)
    IN  post.total_comments * (r.q + r.p) * 2 * m.q
        + 10 * r.q * 2 * m.q
        + 10 * (r.q + r.p) * (m.p + m.q)
ScoreDen(post) ==
    LET r == FillNaFraction(post.avg_response_time, Fraction(24, 1))
        m == FillNaFraction(post.comment_sentiment_mean, Zero)
    IN  10 * (r.q + r.p) * 2 * m.q

GroupedAuthors(df) == {df[j].author : j \in {k \in 1..Len(df) : df[k].author.t = "str"}}

FracSum(q) == Fraction(SumSeq([j \in 1..Len(q) |-> q[j].p * ProdOver([k \in 1..Len(q) |-> IF k = j THEN 1 ELSE q[k].q], 1..Len(q))]),
                       ProdOver([k \in 1..Len(q) |-> q[k].q], 1..Len(q)))
FracMean(q) == FracDiv(FracSum(q), Fraction(Len(q), 1))

\* the 'mean' aggregate of avg_response_time of one author
AuthorMean(df, author) == FracMean(FieldOf(UserPosts(df, author), "avg_response_time"))

\* Series.quantile(k/3) with linear interpolation, on the values in
\* ascending order
QuantileEdge(sorted, k) ==
    LET n   == Len(sorted)
        lo  == ((n - 1) * k) \div 3
        rem == ((n - 1) * k) % 3
    IN  IF rem = 0 THEN sorted[lo + 1]
        ELSE FracAdd(sorted[lo + 1],
                     FracDiv(FracAdd(sorted[lo + 2],
                                     Fraction(0 - sorted[lo + 1].p, sorted[lo + 1].q)),
                             Fraction(3, rem)))

ResponseCategories == <<"quick", "moderate", "slow">>

\* the means of the authors in ascending order
SortedMeans(df) ==
    LET authors == GroupedAuthors(df)
        n == Cardinality(authors)
        order == CHOOSE f \in [1..n -> authors] :
                    /\ Injective(f)
                    /\ \A i \in 1..(n - 1) :
                           FracLe(AuthorMean(df, f[i]), AuthorMean(df, f[i + 1]))
    IN  [i \in 1..n |-> AuthorMean(df, order[i])]

\* the edges of pd.qcut(q=3)
QcutEdges(df) == [k \in 1..4 |-> QuantileEdge(SortedMeans(df), k - 1)]

\* pd.qcut raises ValueError when two edges are equal
QcutRaises(df) ==
    \E k \in 1..3 : FracLe(QcutEdges(df)[k + 1], QcutEdges(df)[k])

\* the bin (e[k], e[k+1]] that holds x, the lowest edge included
QcutLabel(edges, x) ==
    ResponseCategories[CHOOSE k \in 1..3 :
                          /\ FracLe(x, edges[k + 1])
                          /\ \A lower \in 1..(k - 1) : ~FracLe(x, edges[lower + 1])]

\* lines 185-217; warned tells that the except branch printed its message
_extract_user_patterns(df) ==
    LET authors == GroupedAuthors(df)
    IN  IF Cardinality(authors) >= 3 /\ QcutRaises(df)
        THEN [warned |-> TRUE,
              value |-> [j \in 1..Len(df) |->
                            WithField(df[j], "user_response_category", "moderate")]]
        ELSE [warned |-> FALSE,
              value |-> [j \in 1..Len(df) |->
                            WithField(df[j], "user_response_category",
                                IF df[j].author.t # "str" THEN "nan"
                                ELSE IF Cardinality(authors) >= 3
                                THEN QcutLabel(QcutEdges(df), AuthorMean(df, df[j].author))
                                ELSE "moderate")]]

(***************************************************************************)
(* SpecPatterns: the response categories of any table of up to             *)
(* MaxPatterned posts                                                      *)
(***************************************************************************)
MaxPatterned == 3

PatternAuthors == {Author("ann"), Author("bob"), Author("cyd"), MissingAuthor}
PatternHours   == {Zero, Fraction(1, 1), Fraction(2, 1)}
PatternInputs  == [author : PatternAuthors, avg_response_time : PatternHours]

InitPatterns ==
    /\ dp_in \in SeqsUpTo(PatternInputs, MaxPatterned)
    /\ dp_out = NoOutput
    /\ DataRest

ExtractUserPatterns ==
    /\ dp_out = NoOutput
    /\ dp_out' = [kind |-> "return"] @@ _extract_user_patterns(dp_in)
    /\ UNCHANGED <<dp_in, score_vars, match_vars, rec_vars>>

NextPatterns == ExtractUserPatterns
SpecPatterns == InitPatterns /\ [][NextPatterns]_vars

CategoryOf(author) ==
    {dp_out.value[j].user_response_category :
        j \in {k \in 1..Len(dp_in) : dp_in[k].author = author}}
AuthorsIn(label) == {a \in GroupedAuthors(dp_in) : CategoryOf(a) = {label}}

(***************************************************************************)
(* C15: with fewer than 3 distinct authors every author is moderate; with  *)
(* 3 or more each author has exactly one of quick, moderate and slow, the  *)
(* bucket sizes differ by at most one, and a faster bucket holds no author *)
(* slower than an author of a slower bucket, also when means are equal.    *)
(***************************************************************************)
C15_BalancedResponseBuckets ==
    dp_out.kind = "return" =>
        LET authors == GroupedAuthors(dp_in)
            sizes == [k \in 1..3 |-> Cardinality(AuthorsIn(ResponseCategories[k]))]
        IN  /\ Cardinality(authors) < 3 => \A a \in authors : CategoryOf(a) = {"moderate"}
            /\ Cardinality(authors) >= 3 =>
                   /\ \A a \in authors : \E k \in 1..3 : CategoryOf(a) = {ResponseCategories[k]}
                   /\ \A j, k \in 1..3 : sizes[j] - sizes[k] <= 1
                   /\ \A j, k \in 1..3 : j < k =>
                          \A a \in AuthorsIn(ResponseCategories[j]),
                             b \in AuthorsIn(ResponseCategories[k]) :
                              FracLe(AuthorMean(dp_in, a), AuthorMean(dp_in, b))

\* what holds instead: the buckets are as claimed when the quantile edges
\* are distinct, and everyone is moderate when two of them are equal
C15_BucketsUnlessEqualEdges ==
    dp_out.kind = "return" =>
        LET authors == GroupedAuthors(dp_in)
        IN  /\ Cardinality(authors) < 3 => \A a \in authors : CategoryOf(a) = {"moderate"}
            /\ (Cardinality(authors) >= 3 /\ dp_out.warned) =>
                   \A a \in authors : CategoryOf(a) = {"moderate"}
            /\ (Cardinality(authors) >= 3 /\ ~dp_out.warned) =>
                   \A a \in authors : \E k \in 1..3 : CategoryOf(a) = {ResponseCategories[k]}


(***************************************************************************)
(* SpecTime: calculate_match_score applied, with the same preferences, to  *)
(* two profiles that differ in avg_response_time only; time_score is the   *)
(* local variable of lines 215-225 in each call                            *)
(***************************************************************************)
MaxTimeQuarters == 104

TimePrefs == {Pref("neutral", r, "medium") : r \in {Hours(1), Hours(6), Hours(24)}}
TimeRow(quarters) ==
    [avg_response_time |-> Num(quarters), sentiment_mean |-> Tenths(0),
     engagement_level |-> "medium", message_frequency |-> 3]

InitTime ==
    /\ sc_prefs \in TimePrefs
    /\ sc_row \in {TimeRow(q) : q \in 0..MaxTimeQuarters}
    /\ sc_out = NoCall
    /\ dp_in \in {TimeRow(q) : q \in 0..MaxTimeQuarters}
    /\ dp_out = NoOutput
    /\ MatchIdle
    /\ RecIdle

ScorePair ==
    /\ sc_out = NoCall
    /\ sc_out' = calculate_match_score(sc_prefs, sc_row)
    /\ dp_out' = [kind |-> "scored",
                  time_score |-> <<TimeScore(sc_prefs, sc_row), TimeScore(sc_prefs, dp_in)>>,
                  value |-> calculate_match_score(sc_prefs, dp_in)]
    /\ UNCHANGED <<sc_prefs, sc_row, dp_in, match_vars, rec_vars>>

NextTime == ScorePair
SpecTime == InitTime /\ [][NextTime]_vars

\* response_time_diff of the two calls, in quarter hours
TimeDiff(row) == AbsInt(row.avg_response_time.v - sc_prefs["response_time"].v)

(***************************************************************************)
(* C18 as stated: the fraction awarded by the response-time component is   *)
(* monotone non-increasing in d = |avg_response_time - response_time|,     *)
(* across the tier boundaries and into the linear tail.                    *)
(***************************************************************************)
C18_TimeScoreMonotone ==
    dp_out.kind = "scored" =>
        (TimeDiff(sc_row) <= TimeDiff(dp_in) => dp_out.time_score[1] >= dp_out.time_score[2])

(***************************************************************************)
(* C18 amended: the fraction is monotone non-increasing in d over the      *)
(* tiers (d <= 12) and over the linear tail (d > 12), and from any d to a  *)
(* d of 14.4 or more; for 12 < d < 14.4 the tail awards more than the 0.4  *)
(* of the tier 6 < d <= 12.                                                *)
(***************************************************************************)
C18_TimeScoreMonotoneByParts ==
    dp_out.kind = "scored" =>
        LET d1 == TimeDiff(sc_row)
            d2 == TimeDiff(dp_in)
            f1 == dp_out.time_score[1]
            f2 == dp_out.time_score[2]
        IN  /\ (d1 <= d2 /\ (d2 <= 12 * QuartersPerHour
                              \/ d1 > 12 * QuartersPerHour
                              \/ 10 * d2 >= 144 * QuartersPerHour)) => f1 >= f2
            /\ (6 * QuartersPerHour < d1 /\ d1 <= 12 * QuartersPerHour
                /\ 12 * QuartersPerHour < d2 /\ 10 * d2 < 144 * QuartersPerHour) => f1 < f2

\* d1 = 12 hours scored 0.4 and d2 = 12.25 hours scored more
C18_Witness ==
    /\ dp_out.kind = "scored"
    /\ TimeDiff(sc_row) = 12 * QuartersPerHour
    /\ TimeDiff(dp_in) = 12 * QuartersPerHour + 1
    /\ 10 * dp_out.time_score[1] = 4 * TimeFracDen
    /\ dp_out.time_score[2] > dp_out.time_score[1]


(***************************************************************************)
(* DataProcessor.preprocess_data (data_processing.py)                      *)
(*                                                                         *)
(* The frame is built from a list of post dicts (main.py:55-56): it has a  *)
(* column for every key some post has, and NaN where a post lacks the key. *)
(* polarity stands for the polarity TextBlob gives the cleaned text of the *)
(* post, in tenths; it is no column of the frame.  The columns that depend *)
(* on the calendar or on TextBlob alone (day_of_week, is_weekend,          *)
(* sentence_count, avg_word_length, sentiment_subjectivity) are left out:  *)
(* they are computed without raising from the columns modelled here.       *)
(***************************************************************************)
PostKeys == {"title", "text", "author", "created_utc", "comments"}

\* pd.DataFrame(data).columns
Columns(df) == (UNION {DOMAIN df[j] : j \in 1..Len(df)}) \cap PostKeys

\* lines 82-90
_categorize_time_of_day(hour) ==
    IF IsNum(hour) /\ 5 <= hour.v /\ hour.v < 12 THEN "morning"
    ELSE IF IsNum(hour) /\ 12 <= hour.v /\ hour.v < 17 THEN "afternoon"
    ELSE IF IsNum(hour) /\ 17 <= hour.v /\ hour.v < 22 THEN "evening"
    ELSE "night"

\* lines 221-223, on a polarity in tenths
CommunicationStyle(polarity) ==
    IF polarity > 2 THEN "positive" ELSE IF polarity < 0 - 2 THEN "critical" ELSE "neutral"

\* lines 41-55 for one row of a frame that has the columns title, text,
\* created_utc and comments, and a comment list in this row
PreprocessRow(df, j) ==
    LET post == df[j]
        title == IF "title" \in DOMAIN post THEN post.title ELSE MissingText
        text == IF "text" \in DOMAIN post THEN post.text ELSE MissingText
        created_utc == IF "created_utc" \in DOMAIN post THEN Num(post.created_utc) ELSE NaN
        hour_posted == IF IsNum(created_utc)
                       THEN Num((created_utc.v \div QuartersPerHour) % 24) ELSE NaN
        clean_text == _clean_text(text)
        sentiment_polarity == IF "text" \in DOMAIN post THEN post.polarity ELSE 0
        stats == _extract_comment_features(_process_comments(post.comments))
        base == [title |-> title, text |-> text, created_utc |-> created_utc,
                 clean_title |-> _clean_text(title), clean_text |-> clean_text,
                 hour_posted |-> hour_posted,
                 time_of_day |-> _categorize_time_of_day(hour_posted),
                 word_count |-> CountWords(clean_text, 1),
                 sentiment_polarity |-> sentiment_polarity,
                 avg_comment_length |-> stats.avg_comment_length,
                 total_comments |-> stats.total_comments,
                 avg_words_per_comment |-> stats.avg_words_per_comment,
                 comment_sentiment_mean |->
                     FracDiv(stats.comment_sentiment_mean, Fraction(10, 1)),
                 avg_response_time |-> stats.avg_response_time,
                 communication_style |-> CommunicationStyle(sentiment_polarity)]
    IN  IF "author" \in Columns(df)
        THEN WithField(base, "author",
                       IF "author" \in DOMAIN post THEN Author(post.author) ELSE MissingAuthor)
        ELSE base

\* lines 34-72.  A frame without one of the columns title, text, created_utc
\* and comments raises KeyError (lines 41, 42, 45, 52); a row whose comments
\* are NaN raises TypeError in _process_comments (line 117); line 72 raises
\* again whatever was raised.  A frame without the column author raises
\* KeyError in _extract_user_patterns only, where line 214 catches it.
preprocess_data(df) ==
    IF \/ ~({"title", "text", "created_utc", "comments"} \subseteq Columns(df))
       \/ \E j \in 1..Len(df) : "comments" \notin DOMAIN df[j]
    THEN [kind |-> "raise", warned |-> FALSE, value |-> <<>>]
    ELSE LET rows == [j \in 1..Len(df) |-> PreprocessRow(df, j)]
             levels == _calculate_engagement_levels(rows)
             patterns ==
                 IF "author" \in Columns(df) THEN _extract_user_patterns(levels)
                 ELSE [warned |-> TRUE,
                       value |-> [j \in 1..Len(levels) |->
                                     WithField(levels[j], "user_response_category", "moderate")]]
         IN  [kind |-> "return", warned |-> patterns.warned, value |-> patterns.value]

(***************************************************************************)
(* Domain of the raw posts                                                 *)
(***************************************************************************)
MaxRawPosts == 2

RawPost(author, title, text, hour, polarity, comments) ==
    [author |-> author, title |-> title, text |-> text,
     created_utc |-> hour * QuartersPerHour, polarity |-> polarity, comments |-> comments]

\* comment lists: empty, well formed, one comment without text among well
\* formed ones, and one comment without created_utc alone
WellFormedList == <<RawComment("ann", Text(<<"X", " ", "s">>), 1, 0, 0),
                    RawComment("cyd", Text(<<"s">>), 2, 2, 0 - 5)>>
NoTextComment == WithoutKey(RawComment("cyd", Text(<<"w">>), 1, 3, 5), "text")
NoTimeComment == WithoutKey(RawComment("bob", Text(<<"s">>), 1, 1, 0), "created_utc")

FullPosts ==
    {RawPost("ann", Text(<<"X">>), Text(<<"s", " ", "w">>), 9, 5, WellFormedList),
     RawPost("bob", Text(<<"s">>), Text(<<"w", ".">>), 30, 0, <<>>),
     RawPost("bob", Text(<<"w">>), Text(<<"s">>), 13, 0 - 5,
             <<WellFormedList[1], NoTextComment, WellFormedList[2]>>),
     RawPost("cyd", Text(<<"w">>), Text(<<"X">>), 20, 0, <<NoTimeComment>>)}

RawPosts ==
    FullPosts
    \cup {WithoutKey(RawPost("ann", Text(<<"X">>), Text(<<"s">>), 9, 5, WellFormedList), k) :
              k \in PostKeys}

RawFrames == SeqsUpTo(RawPosts, MaxRawPosts)

(***************************************************************************)
(* SpecPreprocess: preprocess_data on any frame of up to MaxRawPosts posts *)
(***************************************************************************)
InitPreprocess ==
    /\ dp_in \in RawFrames
    /\ dp_out = NoOutput
    /\ DataRest

PreprocessData ==
    /\ dp_out = NoOutput
    /\ dp_out' = preprocess_data(dp_in)
    /\ UNCHANGED <<dp_in, score_vars, match_vars, rec_vars>>

NextPreprocess == PreprocessData
SpecPreprocess == InitPreprocess /\ [][NextPreprocess]_vars

\* some post lacks one of its fields, or some comment one of its four
Malformed(df) ==
    \E j \in 1..Len(df) :
        \/ ~(PostKeys \subseteq DOMAIN df[j])
        \/ /\ "comments" \in DOMAIN df[j]
           /\ \E c \in 1..Len(df[j].comments) : ~(CommentKeys \subseteq DOMAIN df[j].comments[c])

(***************************************************************************)
(* C12: preprocess_data raises to its caller whenever a post, or a comment *)
(* nested under a post, lacks a required field; it never returns a result  *)
(* computed from the remaining records.                                    *)
(***************************************************************************)
C12_MalformedInputRaises ==
    (dp_out.kind # "none" /\ Malformed(dp_in)) => dp_out.kind = "raise"

\* what the code does: it raises exactly when the frame lacks one of the
\* columns title, text, created_utc and comments, or a post has no comments
C12_RaisesOnMissingColumnsOnly ==
    dp_out.kind # "none" =>
        (dp_out.kind = "raise" <=>
            \/ \E k \in PostKeys \ {"author"} : \A j \in 1..Len(dp_in) : k \notin DOMAIN dp_in[j]
            \/ \E j \in 1..Len(dp_in) : "comments" \notin DOMAIN dp_in[j])

\* a comment without text was dropped and the statistics of the other two
\* comments were returned
C12_CommentDropped ==
    /\ dp_out.kind = "return"
    /\ Len(dp_in) = 1
    /\ Len(dp_in[1].comments) = 3
    /\ "text" \notin DOMAIN dp_in[1].comments[2]
    /\ dp_out.value[1].total_comments = 2

====
